---- MODULE Spec2Model ----
(***************************************************************************)
(* Model of merakicommons/ratelimits.py: FixedWindowRateLimiter,           *)
(* TokenBucketRateLimiter and MultiRateLimiter, driven by concurrent       *)
(* callers doing scoped acquisitions (`with limiter:` / limiter.limit).    *)
(*                                                                         *)
(* Granularity.  Every block of the source that runs under                 *)
(* _enter_exit_lock is one action: all shared fields except the permit     *)
(* gate are only touched under that lock, and a gate acquire by another    *)
(* thread in the middle of such a block commutes with the block.  The      *)
(* blocking call self._permitter.acquire() is an action of its own, so a   *)
(* timer or a refill tick can run between line 81 and line 82 (149/150).   *)
(* threading.Lock may be released by any thread; release() of an unlocked  *)
(* Lock raises RuntimeError.                                               *)
(***************************************************************************)
EXTENDS Integers, Sequences, FiniteSets, TLC

\* ---------------------------------------------------------------- bounds
NumCallers == 3
MaxCalls == 4
MaxCallsLong == 5
NumLockCallers == 2
MaxCallsLocks == 2
NumOrderCallers == 2
MaxCallsOrders == 2
MaxPermits == 2
WindowSeconds == 2
MaxEpochSeconds == 2
MaxEpochSecondsLong == 3
MaxEpochPermits == 2
MaxTicks == 3

Callers == 1..NumCallers
Limiters == {"A", "B"}      \* FixedWindowRateLimiter instances
Counted == Limiters \cup {"T", "M"}   \* every object with an issued counter
NoTimer == -1
NoArgs == <<>>
NoThread == 0

VARIABLES
    mode,                   \* which limiter type the callers drive; "new" while the constructor has not run, "ValueError" when it raised
    new_args,               \* the arguments the constructor is called with; NoArgs for a limiter that is given as constructed
    multi_limiters,         \* multi_limiters[c]: MultiRateLimiter._limiters of the composite caller c uses
    pc,                     \* pc[c]: where caller c is in its scoped acquisition
    at,                     \* at[c]: the fixed-window limiter c is entering or leaving
    calls,                  \* scoped acquisitions begun so far, by all callers
    exc,                    \* exc[c]: the protected work of c raised
    result,                 \* result[c]: how c's last scoped acquisition ended
    window_permits,         \* FixedWindowRateLimiter._window_permits, per instance
    window_seconds,         \* _window_seconds
    permitter,              \* _permitter: TRUE = locked
    permits,                \* _permits
    total_permits_issued,   \* _total_permits_issued
    currently_processing,   \* _currently_processing
    resetter,               \* _resetter: NoTimer, or the time left until the Timer is due
    multi_permits_issued,   \* MultiRateLimiter._total_permits_issued
    starts,                 \* history: the age of every __enter__ return, oldest first (kept for a limiter used directly)
    taken,                  \* history: counter updates since the last reset_permits_issued
    admitted,               \* history: __enter__ returns since the last reset_permits_issued
    released,               \* history: __exit__ runs since the last reset_permits_issued
    held,                   \* history: held[c], the limiters c has entered and not left
    last_release,           \* history: the age of the latest __exit__, NoTimer before the first (kept for a limiter used directly)
    window_starts,          \* history: composite acquisitions started since the latest _reset of each child, NoTimer before its first _reset
    timers,                 \* history: Timer threads started by __exit__ that have not run _reset yet
    window_admits,          \* history: __enter__ returns since the latest _reset, or since construction (kept for a limiter used directly)
    short_reset,            \* history: the latest _reset computed a capacity of zero or less (kept for a limiter used directly)
    first_work,             \* history: how long the first acquisition was held, up to AgeCap, NoTimer until it is released (kept for a limiter of one permit)
    epoch_seconds,          \* TokenBucketRateLimiter._epoch_seconds
    epoch_permits,          \* _epoch_permits
    token_update,           \* _token_update
    token_limit,            \* _token_limit (max_burst)
    tokens,                 \* _tokens, counted in units of 1/epoch_seconds of a token
    bucket_permitter,       \* _permitter of the bucket: TRUE = locked
    bucket_permits_issued,  \* _total_permits_issued of the bucket
    token_provider,         \* _token_provider: TRUE = a refill thread is set
    segments_full,          \* segments_full of the running _provide_tokens
    ticked,                 \* history: the refill loop has run an iteration
    tick_from,              \* history: _tokens before the last iteration
    tick_admits,            \* history: __enter__ returns since the last iteration
    ticks,                  \* history: iterations of the refill loop since construction, counted up to MaxTicks
    bucket_admits,          \* history: __enter__ returns of the bucket since construction
    providers,              \* history: refill threads that were started and have not ended
    enter_exit_lock,        \* _enter_exit_lock: the thread that holds it, NoThread when free (kept by the lock-level specification)
    issued_lock             \* _total_permits_issued_lock: the thread that holds it, NoThread when free (kept by the lock-level specification)

cvars == <<pc, at, calls, exc, result>>
fwvars == <<window_permits, window_seconds, permitter, permits,
            total_permits_issued, currently_processing, resetter>>
whist == <<timers, window_admits, short_reset>>
hist == <<starts, taken, admitted, released, held, last_release, first_work, window_starts, whist>>
tbconf == <<epoch_seconds, epoch_permits, token_update, token_limit>>
tbhist == <<ticked, tick_from, tick_admits, ticks, bucket_admits, providers>>
tbvars == <<tbconf, tokens, bucket_permitter, bucket_permits_issued,
            token_provider, segments_full, tbhist>>
lockvars == <<enter_exit_lock, issued_lock>>
vars == <<mode, new_args, multi_limiters, cvars, fwvars, multi_permits_issued, hist, tbvars, lockvars>>

Min(a, b) == IF a < b THEN a ELSE b

\* ------------------------------------------------------- scoped acquisition
\* The callers before their first call; caller c uses a composite (if any)
\* whose children are order[c].
CallersInitWith(order) ==
    /\ multi_limiters = order
    /\ pc = [c \in Callers |-> "idle"]
    /\ at = [c \in Callers |-> order[c][1]]
    /\ calls = 0
    /\ exc = [c \in Callers |-> FALSE]
    /\ result = [c \in Callers |-> "none"]
    /\ starts = [l \in Limiters |-> <<>>]
    /\ taken = [l \in Counted |-> 0]
    /\ admitted = [l \in Counted |-> 0]
    /\ released = [l \in Counted |-> 0]
    /\ held = [c \in Callers |-> {}]
    /\ last_release = [l \in Limiters |-> NoTimer]
    /\ first_work = [l \in Limiters |-> NoTimer]
    /\ window_starts = [l \in Limiters |-> NoTimer]
    /\ timers = [l \in Limiters |-> 0]
    /\ window_admits = [l \in Limiters |-> 0]
    /\ short_reset = [l \in Limiters |-> FALSE]
    /\ enter_exit_lock = NoThread
    /\ issued_lock = NoThread

\* Every caller uses the same limiter: MultiRateLimiter(A, B) for a composite.
CallersInit == CallersInitWith([c \in Callers |-> <<"A", "B">>])

\* A caller begins a scoped acquisition: `with limiter:`, or a call of the
\* wrapper that limit() returns, which is the same with statement.
CallWithin(c, n) ==
    /\ pc[c] = "idle"
    /\ calls < n
    /\ calls' = calls + 1
    /\ pc' = [pc EXCEPT ![c] = "acquire"]
    /\ result' = [result EXCEPT ![c] = "none"]
    /\ UNCHANGED <<mode, new_args, multi_limiters, lockvars, at, exc, fwvars, multi_permits_issued, hist, tbvars>>

\* The same, within the number of scoped acquisitions the specifications
\* explore.
Call(c) == CallWithin(c, MaxCalls)

\* The protected work runs and either returns or raises.
Work(c) ==
    /\ pc[c] = "work"
    /\ \E e \in BOOLEAN : exc' = [exc EXCEPT ![c] = e]
    /\ pc' = [pc EXCEPT ![c] = "exit"]
    /\ UNCHANGED <<mode, new_args, multi_limiters, lockvars, at, calls, result, fwvars, multi_permits_issued, hist, tbvars>>

\* Mutant: __exit__ returns a truthy value when the work raised.
ExitSwallows(e) == e

\* What __exit__ returns to the with statement: None, which is falsy, so the
\* exception of the protected work is re-raised.
ExitSuppresses(e) == FALSE

\* The outcome of the with statement once __exit__ has returned.
WithOutcome(e) == IF e /\ ~ExitSuppresses(e) THEN "raised" ELSE "returned"

\* --------------------------------------------------------- MultiRateLimiter
\* MultiRateLimiter(A, B): _limiters, in the order given.
limiters == <<"A", "B">>

IndexOf(l) == CHOOSE i \in 1..Len(limiters) : limiters[i] = l

\* The same children in the other order: MultiRateLimiter(B, A).
limiters_reversed == <<"B", "A">>

\* The place of child l in the _limiters of the composite caller c uses.
IndexIn(c, l) == CHOOSE i \in 1..Len(multi_limiters[c]) : multi_limiters[c][i] = l
FirstLimiter(c) == multi_limiters[c][1]
IsLast(c, l) == IndexIn(c, l) = Len(multi_limiters[c])
\* Mutant: the loop of __enter__ starts over at the first child.
NextLimiterFirst(c, l) == multi_limiters[c][1]

NextLimiter(c, l) == multi_limiters[c][IndexIn(c, l) + 1]

\* Where a caller goes when the __enter__ of l has returned: to the
\* protected work, or, in MultiRateLimiter.__enter__ (lines 45-46), to the
\* next child and after the last child to the count of line 50.
AfterEnterPc(c, l) == IF mode = "multi" THEN (IF IsLast(c, l) THEN "count" ELSE "acquire")
                      ELSE "work"
AfterEnterAt(c, l) == IF mode = "multi" /\ ~IsLast(c, l) THEN NextLimiter(c, l) ELSE l

\* Mutant: MultiRateLimiter.__exit__ returns after its first child.
AfterExitPcFirst(c, l) == "idle"

\* Where a caller goes when the __exit__ of l has returned: out of the with
\* statement, or, in MultiRateLimiter.__exit__ (lines 41-42), to the next child.
AfterExitPc(c, l) == IF mode = "multi" /\ ~IsLast(c, l) THEN "exit" ELSE "idle"
AfterExitAt(c, l) == IF mode = "multi" THEN (IF IsLast(c, l) THEN FirstLimiter(c) ELSE NextLimiter(c, l))
                     ELSE l
AfterExitResult(c, l, e) == IF mode = "multi" /\ ~IsLast(c, l) THEN "none" ELSE WithOutcome(e)

\* ------------------------------------------------- FixedWindowRateLimiter
\* Ages are counted up to AgeCap; older is not told apart.
AgeCap == WindowSeconds

\* The age of the first start of a limiter of one permit is counted up to
\* two windows.
StartAgeCap(l, i) == IF i = 1 /\ window_permits[l] = 1 THEN 2 * WindowSeconds ELSE AgeCap

\* __init__(window_seconds, window_permits): no validation in the source.
FWInit(ws, wp) ==
    /\ window_seconds = ws
    /\ window_permits = wp
    /\ permitter = [l \in Limiters |-> FALSE]
    /\ permits = wp
    /\ total_permits_issued = [l \in Limiters |-> 0]
    /\ currently_processing = [l \in Limiters |-> 0]
    /\ resetter = [l \in Limiters |-> NoTimer]

\* The arguments FixedWindowRateLimiter is constructed with: <<window_seconds,
\* window_permits>>, zero included.
FWArgs == {<<ws, wp>> : ws \in 0..WindowSeconds, wp \in 0..MaxPermits}

\* __init__, lines 65-77, as an operation: the arguments are stored as they
\* come, nothing is checked and nothing raises.
FWConstruct ==
    /\ mode = "new"
    /\ new_args \in FWArgs
    /\ mode' = "fw"
    /\ window_seconds' = [l \in Limiters |-> new_args[1]]
    /\ window_permits' = [l \in Limiters |-> new_args[2]]
    /\ permitter' = [l \in Limiters |-> FALSE]
    /\ permits' = [l \in Limiters |-> new_args[2]]
    /\ total_permits_issued' = [l \in Limiters |-> 0]
    /\ currently_processing' = [l \in Limiters |-> 0]
    /\ resetter' = [l \in Limiters |-> NoTimer]
    /\ UNCHANGED <<new_args, multi_limiters, lockvars, cvars, multi_permits_issued, hist, tbvars>>

\* __enter__, line 81: self._permitter.acquire() blocks while the gate is held.
FWAcquire(c, l) ==
    /\ pc[c] = "acquire"
    /\ at[c] = l
    /\ permitter[l] = FALSE
    /\ permitter' = [permitter EXCEPT ![l] = TRUE]
    /\ pc' = [pc EXCEPT ![c] = "enter"]
    /\ UNCHANGED <<mode, new_args, multi_limiters, lockvars, at, calls, exc, result, window_permits, window_seconds, permits,
                   total_permits_issued, currently_processing, resetter,
                   multi_permits_issued, hist, tbvars>>

\* Mutant: the gate is released although the last permit was taken.
FWReleaseAfterLast(p) == p >= 0

\* __enter__, line 88: the test that decides whether the gate is released.
FWReleaseAfterEnter(p) == p > 0

\* __enter__, line 85.
FWIssue(n) == n + 1

\* __enter__, lines 82-91.  Line 89 raises RuntimeError when the gate is
\* already unlocked; the exception leaves __enter__ (and the __enter__ of a
\* MultiRateLimiter around it), so the with statement never calls __exit__.
FWEnter(c, l) ==
    /\ pc[c] = "enter"
    /\ at[c] = l
    /\ permits' = [permits EXCEPT ![l] = @ - 1]
    /\ total_permits_issued' = [total_permits_issued EXCEPT ![l] = FWIssue(@)]
    /\ currently_processing' = [currently_processing EXCEPT ![l] = @ + 1]
    /\ taken' = [taken EXCEPT ![l] = @ + 1]
    /\ IF FWReleaseAfterEnter(permits'[l]) /\ permitter[l] = FALSE
       THEN /\ pc' = [pc EXCEPT ![c] = "idle"]
            /\ at' = [at EXCEPT ![c] = FirstLimiter(c)]
            /\ result' = [result EXCEPT ![c] = "RuntimeError"]
            /\ UNCHANGED <<permitter, starts, admitted, held, window_admits>>
       ELSE /\ permitter' = [permitter EXCEPT ![l] =
                                IF FWReleaseAfterEnter(permits'[l]) THEN FALSE ELSE @]
            /\ pc' = [pc EXCEPT ![c] = AfterEnterPc(c, l)]
            /\ at' = [at EXCEPT ![c] = AfterEnterAt(c, l)]
            /\ starts' = [starts EXCEPT ![l] = IF mode = "fw" THEN Append(@, 0) ELSE @]
            /\ admitted' = [admitted EXCEPT ![l] = @ + 1]
            /\ held' = [held EXCEPT ![c] = @ \cup {l}]
            /\ window_admits' = [window_admits EXCEPT ![l] = IF mode = "fw" THEN @ + 1 ELSE @]
            /\ UNCHANGED result
    /\ UNCHANGED <<mode, new_args, multi_limiters, lockvars, calls, exc, window_permits, window_seconds, resetter,
                   multi_permits_issued, released, last_release, first_work, timers, short_reset,
                   window_starts, tbvars>>

\* Mutant: every __exit__ starts a new Timer.
FWScheduleAlways(r, ws) == ws

\* __exit__, lines 98-101: a Timer of window_seconds is started only when
\* none is set.
FWSchedule(r, ws) == IF r = NoTimer THEN ws ELSE r

\* __exit__, lines 93-101; exc_type is not looked at.
FWExit(c, l) ==
    /\ pc[c] = "exit"
    /\ at[c] = l
    /\ currently_processing' = [currently_processing EXCEPT ![l] = @ - 1]
    /\ resetter' = [resetter EXCEPT ![l] = FWSchedule(@, window_seconds[l])]
    /\ timers' = [timers EXCEPT ![l] = IF resetter[l] = NoTimer THEN @ + 1 ELSE @]
    /\ released' = [released EXCEPT ![l] = @ + 1,
                                    !["M"] = IF mode = "multi" /\ IsLast(c, l) THEN @ + 1 ELSE @]
    /\ held' = [held EXCEPT ![c] = @ \ {l}]
    /\ last_release' = [last_release EXCEPT ![l] = IF mode = "fw" THEN 0 ELSE @]
    /\ first_work' = [first_work EXCEPT ![l] = IF window_permits[l] = 1 /\ Len(starts[l]) = 1 /\ @ = NoTimer
                                               THEN Min(starts[l][1], AgeCap) ELSE @]
    /\ pc' = [pc EXCEPT ![c] = AfterExitPc(c, l)]
    /\ at' = [at EXCEPT ![c] = AfterExitAt(c, l)]
    /\ result' = [result EXCEPT ![c] = AfterExitResult(c, l, exc[c])]
    /\ exc' = [exc EXCEPT ![c] = IF AfterExitPc(c, l) = "idle" THEN FALSE ELSE @]
    /\ UNCHANGED <<mode, new_args, multi_limiters, lockvars, calls, window_permits, window_seconds, permitter, permits,
                   total_permits_issued, multi_permits_issued, starts, taken, admitted,
                   window_starts, window_admits, short_reset, tbvars>>

\* Mutant: _reset leaves the handle of its Timer set.
FWHandleKept(r) == r

\* _reset, line 106: the handle is cleared.
FWHandleAfterReset(r) == NoTimer

\* Mutant: _reset gives the new window its full capacity.
FWResetPermitsFull(wp, cp) == wp

\* _reset, line 105: the capacity of the new window.
FWResetPermits(wp, cp) == wp - cp

\* _reset, lines 103-112, run by the Timer thread once window_seconds have
\* passed; releasing an unlocked gate is caught (lines 110-112).
FWResetBody(l) ==
    /\ timers[l] > 0
    /\ resetter[l] = 0
    /\ permits' = [permits EXCEPT ![l] = FWResetPermits(window_permits[l], currently_processing[l])]
    /\ resetter' = [resetter EXCEPT ![l] = FWHandleAfterReset(@)]
    /\ timers' = [timers EXCEPT ![l] = @ - 1]
    /\ window_admits' = [window_admits EXCEPT ![l] = 0]
    /\ short_reset' = [short_reset EXCEPT ![l] = mode = "fw" /\ permits'[l] <= 0]
    /\ permitter' = [permitter EXCEPT ![l] = FALSE]
    /\ window_starts' = [window_starts EXCEPT ![l] = IF mode = "multi" THEN 0 ELSE @]
    /\ UNCHANGED <<mode, new_args, multi_limiters, cvars, window_permits, window_seconds, total_permits_issued,
                   currently_processing, multi_permits_issued, starts, taken, admitted,
                   released, held, last_release, first_work, tbvars>>

\* The same as one step: the lock it runs under is taken and released within.
FWReset(l) == FWResetBody(l) /\ UNCHANGED lockvars

\* Mutant: reset_permits_issued takes one off the counter.
ResetIssuedByOne(n) == n - 1

\* reset_permits_issued, lines 61, 121 and 209: the value the counter is set to.
ResetIssued(n) == 0

\* reset_permits_issued, lines 119-121.
FWResetPermitsIssuedBody(l) ==
    /\ total_permits_issued' = [total_permits_issued EXCEPT ![l] = ResetIssued(@)]
    /\ taken' = [taken EXCEPT ![l] = 0]
    /\ admitted' = [admitted EXCEPT ![l] = 0]
    /\ released' = [released EXCEPT ![l] = 0]
    /\ UNCHANGED <<mode, new_args, multi_limiters, cvars, window_permits, window_seconds, permitter, permits,
                   currently_processing, resetter, multi_permits_issued, starts, held,
                   last_release, first_work, whist, window_starts, tbvars>>

\* The same as one step: the lock it runs under is taken and released within.
FWResetPermitsIssued(l) == FWResetPermitsIssuedBody(l) /\ UNCHANGED lockvars

\* One unit of time passes: every pending Timer comes one unit closer (a
\* Timer that is due may still fire late) and every recorded start and
\* release ages.
Tick ==
    /\ resetter' = [l \in Limiters |-> IF resetter[l] > 0 THEN resetter[l] - 1 ELSE resetter[l]]
    /\ starts' = [l \in Limiters |->
                    [i \in 1..Len(starts[l]) |-> IF starts[l][i] < StartAgeCap(l, i)
                                                 THEN starts[l][i] + 1 ELSE StartAgeCap(l, i)]]
    /\ last_release' = [l \in Limiters |-> IF last_release[l] # NoTimer /\ last_release[l] < AgeCap
                                             THEN last_release[l] + 1 ELSE last_release[l]]
    /\ UNCHANGED <<mode, new_args, multi_limiters, lockvars, cvars, window_permits, window_seconds, permitter, permits,
                   total_permits_issued, currently_processing, multi_permits_issued,
                   taken, admitted, released, held, first_work, whist, window_starts, tbvars>>

\* Mutant: the composite counts once per child.
MultiIssuePerChild(n) == n + Len(limiters)

\* MultiRateLimiter.__enter__, line 50.
MultiIssue(n) == n + 1

\* MultiRateLimiter.__enter__, lines 49-52: every child has admitted the caller.
MultiCount(c) ==
    /\ pc[c] = "count"
    /\ multi_permits_issued' = MultiIssue(multi_permits_issued)
    /\ taken' = [taken EXCEPT !["M"] = @ + 1]
    /\ admitted' = [admitted EXCEPT !["M"] = @ + 1]
    /\ pc' = [pc EXCEPT ![c] = "work"]
    /\ at' = [at EXCEPT ![c] = FirstLimiter(c)]
    /\ window_starts' = [l \in Limiters |-> IF window_starts[l] = NoTimer THEN NoTimer
                                              ELSE window_starts[l] + 1]
    /\ UNCHANGED <<mode, new_args, multi_limiters, lockvars, calls, exc, result, fwvars, starts, released, held, last_release, first_work, whist, tbvars>>

\* MultiRateLimiter.reset_permits_issued, lines 59-61.
MultiResetPermitsIssued ==
    /\ multi_permits_issued' = ResetIssued(multi_permits_issued)
    /\ taken' = [taken EXCEPT !["M"] = 0]
    /\ admitted' = [admitted EXCEPT !["M"] = 0]
    /\ released' = [released EXCEPT !["M"] = 0]
    /\ UNCHANGED <<mode, new_args, multi_limiters, lockvars, cvars, fwvars, starts, held, last_release, first_work, whist, window_starts, tbvars>>

\* ------------------------------------------------- TokenBucketRateLimiter
\* One token, in the unit _tokens is counted in.  With integer epoch_seconds
\* and token_update every value _tokens takes is a multiple of
\* 1/epoch_seconds, so the arithmetic of lines 151, 169, 185 is exact here.
Token == epoch_seconds

\* Mutant: a max_burst above epoch_permits is accepted.
TBValidAnyBurst(es, ep, mb, tu) ==
    /\ ~(mb < 1)
    /\ ~(tu <= 0 \/ tu > es)

\* __init__, lines 126-130: the configurations that do not raise ValueError.
TBValid(es, ep, mb, tu) ==
    /\ ~(mb < 1 \/ mb > ep)
    /\ ~(tu <= 0 \/ tu > es)

\* __init__, lines 132-145.
TBInit(es, ep, mb, tu) ==
    /\ epoch_seconds = es
    /\ epoch_permits = ep
    /\ token_update = tu
    /\ token_limit = mb
    /\ tokens = mb * es
    /\ bucket_permitter = FALSE
    /\ bucket_permits_issued = 0
    /\ token_provider = FALSE
    /\ segments_full = 0
    /\ ticked = FALSE
    /\ tick_from = mb * es
    /\ tick_admits = 0
    /\ ticks = 0
    /\ bucket_admits = 0
    /\ providers = 0

\* The arguments TokenBucketRateLimiter is constructed with: <<epoch_seconds,
\* epoch_permits, max_burst, token_update_frequency>>, zero and values above
\* the epoch's included.
TBArgs == {<<es, ep, mb, tu>> : es \in 0..MaxEpochSeconds, ep \in 0..MaxEpochPermits,
                                 mb \in 0..(MaxEpochPermits + 1),
                                 tu \in 0..(MaxEpochSeconds + 1)}

\* __init__, lines 125-145, as an operation: ValueError is raised at line 127
\* or 130 before any field is assigned.
TBConstruct ==
    /\ mode = "new"
    /\ new_args \in TBArgs
    /\ IF TBValid(new_args[1], new_args[2], new_args[3], new_args[4])
       THEN /\ mode' = "tb"
            /\ epoch_seconds' = new_args[1]
            /\ epoch_permits' = new_args[2]
            /\ token_update' = new_args[4]
            /\ token_limit' = new_args[3]
            /\ tokens' = new_args[3] * new_args[1]
            /\ bucket_permitter' = FALSE
            /\ bucket_permits_issued' = 0
            /\ token_provider' = FALSE
            /\ segments_full' = 0
            /\ ticked' = FALSE
            /\ tick_from' = new_args[3] * new_args[1]
            /\ tick_admits' = 0
            /\ ticks' = 0
            /\ bucket_admits' = 0
            /\ providers' = 0
       ELSE /\ mode' = "ValueError"
            /\ UNCHANGED tbvars
    /\ UNCHANGED <<new_args, multi_limiters, lockvars, cvars, fwvars, multi_permits_issued, hist>>

\* The bucket is not in use: some valid configuration, never touched.
TBIdle == TBInit(1, 1, 1, 1)

\* _provide_tokens, line 169: epoch_permits / (epoch_seconds / token_update),
\* in units of 1/epoch_seconds.
tokens_per_segment == epoch_permits * token_update

\* Mutant: the quotient is rounded down.
segments_per_epoch_floor == epoch_seconds \div token_update

\* _provide_tokens, line 176: int(ceil(epoch_seconds / token_update)).
segments_per_epoch == (epoch_seconds + token_update - 1) \div token_update

\* __enter__, line 149.
TBAcquire(c) ==
    /\ pc[c] = "acquire"
    /\ bucket_permitter = FALSE
    /\ bucket_permitter' = TRUE
    /\ pc' = [pc EXCEPT ![c] = "enter"]
    /\ UNCHANGED <<mode, new_args, multi_limiters, lockvars, at, calls, exc, result, fwvars, multi_permits_issued, hist, tbconf, tokens,
                   bucket_permits_issued, token_provider, segments_full, tbhist>>

\* Mutant: the gate is released although no whole token is left.
TBReleaseAlways(t) == t >= 0

\* __enter__, line 155: the test that decides whether the gate is released.
TBReleaseAfterEnter(t) == t >= Token

\* Mutant: the acquisition is not counted in __enter__.
TBIssueNot(n) == n

\* __enter__, line 153.
TBIssue(n) == n + 1

\* Mutant: an acquisition takes no token.
TBConsumeNone(t) == t

\* __enter__, line 151: one token is taken.
TBConsume(t) == t - Token

\* __enter__, lines 150-158; line 156 raises RuntimeError on an unlocked gate.
TBEnter(c) ==
    /\ pc[c] = "enter"
    /\ tokens' = TBConsume(tokens)
    /\ bucket_permits_issued' = TBIssue(bucket_permits_issued)
    /\ taken' = [taken EXCEPT !["T"] = @ + 1]
    /\ IF TBReleaseAfterEnter(tokens') /\ bucket_permitter = FALSE
       THEN /\ pc' = [pc EXCEPT ![c] = "idle"]
            /\ result' = [result EXCEPT ![c] = "RuntimeError"]
            /\ UNCHANGED <<bucket_permitter, admitted, tick_admits, bucket_admits, held>>
       ELSE /\ bucket_permitter' = IF TBReleaseAfterEnter(tokens') THEN FALSE
                                   ELSE bucket_permitter
            /\ pc' = [pc EXCEPT ![c] = "work"]
            /\ admitted' = [admitted EXCEPT !["T"] = @ + 1]
            /\ tick_admits' = tick_admits + 1
            /\ bucket_admits' = bucket_admits + 1
            /\ held' = [held EXCEPT ![c] = @ \cup {"T"}]
            /\ UNCHANGED result
    /\ UNCHANGED <<mode, new_args, multi_limiters, lockvars, at, calls, exc, fwvars, multi_permits_issued, starts, released, last_release, first_work, whist, window_starts, tbconf,
                   token_provider, segments_full, ticked, tick_from, ticks, providers>>

\* __exit__, lines 160-166: start a refill thread when none is set.
TBExit(c) ==
    /\ pc[c] = "exit"
    /\ token_provider' = TRUE
    /\ segments_full' = IF token_provider THEN segments_full ELSE 0
    /\ providers' = IF token_provider THEN providers ELSE providers + 1
    /\ released' = [released EXCEPT !["T"] = @ + 1]
    /\ held' = [held EXCEPT ![c] = @ \ {"T"}]
    /\ pc' = [pc EXCEPT ![c] = "idle"]
    /\ result' = [result EXCEPT ![c] = WithOutcome(exc[c])]
    /\ exc' = [exc EXCEPT ![c] = FALSE]
    /\ UNCHANGED <<mode, new_args, multi_limiters, lockvars, at, calls, fwvars, multi_permits_issued, starts, taken, admitted, last_release, first_work, whist, window_starts, tbconf,
                   tokens, bucket_permitter, bucket_permits_issued,
                   ticked, tick_from, tick_admits, ticks, bucket_admits>>

\* Mutant: an iteration adds twice the refill.
TBRefillTwice(t) == Min(t + 2 * tokens_per_segment, token_limit * Token)

\* _provide_tokens, lines 185 and 194.
TBRefill(t) == Min(t + tokens_per_segment, token_limit * Token)

\* _provide_tokens, lines 182-195: the token count after one iteration.
TBTickTokens(t) == IF t = token_limit * Token THEN t ELSE TBRefill(t)

\* Mutant: every iteration counts as one on a full bucket.
TBTickFullAny(t, sf) == sf + 1

\* Mutant: a refilling iteration keeps the count of full segments.
TBTickFullKept(t, sf) == IF t = token_limit * Token THEN sf + 1 ELSE sf

\* _provide_tokens, lines 182-195: segments_full after one iteration.
TBTickFull(t, sf) == IF t = token_limit * Token THEN sf + 1 ELSE 0

\* Mutant: the gate is released only when more than one token results.
TBTickReleasesLate(t) ==
    /\ t # token_limit * Token
    /\ t < Token
    /\ TBRefill(t) > Token

\* Mutant: every refilling iteration releases the gate.
TBTickReleasesAnyRefill(t) == t # token_limit * Token

\* _provide_tokens, lines 184-192: the iteration releases the gate (an
\* unlocked gate is tolerated) when _tokens goes from < 1 to >= 1.
TBTickReleases(t) ==
    /\ t # token_limit * Token
    /\ t < Token
    /\ TBRefill(t) >= Token

\* Mutant: the loop clears its handle and keeps running.
TBLoopGoesOn(n) == n

\* _provide_tokens, line 200: break ends the thread.
TBLoopEnds(n) == n - 1

\* _provide_tokens, lines 177-200: one iteration of the refill loop; at line
\* 197 the thread clears its handle and ends.
TBProvideTokensBody ==
    /\ providers > 0
    /\ tokens' = TBTickTokens(tokens)
    /\ bucket_permitter' = IF TBTickReleases(tokens) THEN FALSE ELSE bucket_permitter
    /\ IF TBTickFull(tokens, segments_full) >= segments_per_epoch
       THEN token_provider' = FALSE /\ segments_full' = 0 /\ providers' = TBLoopEnds(providers)
       ELSE /\ token_provider' = token_provider
            /\ segments_full' = TBTickFull(tokens, segments_full)
            /\ UNCHANGED providers
    /\ ticked' = TRUE
    /\ tick_from' = tokens
    /\ tick_admits' = 0
    /\ ticks' = Min(ticks + 1, MaxTicks)
    /\ UNCHANGED <<mode, new_args, multi_limiters, cvars, fwvars, multi_permits_issued, hist, tbconf, bucket_permits_issued,
                   bucket_admits>>

\* The same as one step: the lock it runs under is taken and released within.
TBProvideTokens == TBProvideTokensBody /\ UNCHANGED lockvars

\* reset_permits_issued, lines 207-209.
TBResetPermitsIssuedBody ==
    /\ bucket_permits_issued' = ResetIssued(bucket_permits_issued)
    /\ taken' = [taken EXCEPT !["T"] = 0]
    /\ admitted' = [admitted EXCEPT !["T"] = 0]
    /\ released' = [released EXCEPT !["T"] = 0]
    /\ UNCHANGED <<mode, new_args, multi_limiters, cvars, fwvars, multi_permits_issued, starts, held, last_release, first_work, whist, window_starts, tbconf, tokens, bucket_permitter,
                   token_provider, segments_full, tbhist>>

\* The same as one step: the lock it runs under is taken and released within.
TBResetPermitsIssued == TBResetPermitsIssuedBody /\ UNCHANGED lockvars

\* ---------------------------------------------------------- specifications
InitFW ==
    /\ new_args = NoArgs
    /\ mode = "fw"
    /\ CallersInit
    /\ TBIdle
    /\ multi_permits_issued = 0
    /\ \E wp \in 1..MaxPermits :
          FWInit([l \in Limiters |-> WindowSeconds], [l \in Limiters |-> wp])

NextFW ==
    /\ mode = "fw"
    /\ \/ \E c \in Callers : Call(c)
       \/ \E c \in Callers : FWAcquire(c, "A")
       \/ \E c \in Callers : FWEnter(c, "A")
       \/ \E c \in Callers : Work(c)
       \/ \E c \in Callers : FWExit(c, "A")
       \/ FWReset("A")
       \/ FWResetPermitsIssued("A")
       \/ Tick

SpecFW == InitFW /\ [][NextFW]_vars

InitTB ==
    /\ new_args = NoArgs
    /\ mode = "tb"
    /\ CallersInit
    /\ FWInit([l \in Limiters |-> WindowSeconds], [l \in Limiters |-> 1])
    /\ multi_permits_issued = 0
    /\ \E es \in 1..MaxEpochSeconds, ep \in 1..MaxEpochPermits :
         \E mb \in 1..MaxEpochPermits, tu \in 1..MaxEpochSeconds :
            /\ TBValid(es, ep, mb, tu)
            /\ TBInit(es, ep, mb, tu)

NextTB ==
    /\ mode = "tb"
    /\ \/ \E c \in Callers : Call(c)
       \/ \E c \in Callers : TBAcquire(c)
       \/ \E c \in Callers : TBEnter(c)
       \/ \E c \in Callers : Work(c)
       \/ \E c \in Callers : TBExit(c)
       \/ TBProvideTokens
       \/ TBResetPermitsIssued

SpecTB == InitTB /\ [][NextTB]_vars

\* A MultiRateLimiter over two fixed-window limiters, used through the
\* composite only.
InitMulti ==
    /\ new_args = NoArgs
    /\ mode = "multi"
    /\ CallersInit
    /\ TBIdle
    /\ multi_permits_issued = 0
    /\ \E wa \in 1..MaxPermits, wb \in 1..MaxPermits :
          FWInit([l \in Limiters |-> WindowSeconds], [l \in Limiters |-> IF l = "A" THEN wa ELSE wb])

NextMulti ==
    /\ mode = "multi"
    /\ \/ \E c \in Callers : Call(c)
       \/ \E c \in Callers, l \in Limiters : FWAcquire(c, l)
       \/ \E c \in Callers, l \in Limiters : FWEnter(c, l)
       \/ \E c \in Callers : MultiCount(c)
       \/ \E c \in Callers : Work(c)
       \/ \E c \in Callers, l \in Limiters : FWExit(c, l)
       \/ \E l \in Limiters : FWReset(l)
       \/ MultiResetPermitsIssued
       \/ Tick

SpecMulti == InitMulti /\ [][NextMulti]_vars

\* Every limiter type.
Init == InitFW \/ InitTB \/ InitMulti
Next == NextFW \/ NextTB \/ NextMulti
Spec == Init /\ [][Next]_vars

\* --------------------------------------------------------------- fairness
\* Fair scheduling of the threads of a fixed-window limiter: a caller that
\* can take a step eventually does, protected work ends, time passes and a
\* Timer that is due fires.  Callers are not obliged to call.
\* The next step of caller c inside a scoped acquisition it has begun.
FWStep(c) == FWAcquire(c, "A") \/ FWEnter(c, "A") \/ Work(c) \/ FWExit(c, "A")
TBStep(c) == TBAcquire(c) \/ TBEnter(c) \/ Work(c) \/ TBExit(c)

FairFW ==
    /\ \A c \in Callers : WF_vars(FWStep(c))
    /\ WF_vars(FWReset("A"))
    /\ WF_vars(Tick)

\* The fair specifications leave reset_permits_issued out: it writes the
\* issued counter only, which no step of an acquisition reads.
NextFWFair ==
    /\ mode = "fw"
    /\ \/ \E c \in Callers : Call(c)
       \/ \E c \in Callers : FWStep(c)
       \/ FWReset("A")
       \/ Tick

SpecFWFair == InitFW /\ [][NextFWFair]_vars /\ FairFW

\* The same for a token bucket: the refill thread, once started, keeps
\* iterating until it ends itself.
FairTB ==
    /\ \A c \in Callers : WF_vars(TBStep(c))
    /\ WF_vars(TBProvideTokens)

NextTBFair ==
    /\ mode = "tb"
    /\ \/ \E c \in Callers : Call(c)
       \/ \E c \in Callers : TBStep(c)
       \/ TBProvideTokens

SpecTBFair == InitTB /\ [][NextTBFair]_vars /\ FairTB

\* A bucket whose epoch goes up to MaxEpochSecondsLong, so that
\* epoch_seconds / token_update is not always a whole number; one permit per
\* epoch, and the fair steps.
InitTBLong ==
    /\ new_args = NoArgs
    /\ mode = "tb"
    /\ CallersInit
    /\ FWInit([l \in Limiters |-> WindowSeconds], [l \in Limiters |-> 1])
    /\ multi_permits_issued = 0
    /\ \E es \in 1..MaxEpochSecondsLong, tu \in 1..MaxEpochSecondsLong :
          /\ TBValid(es, 1, 1, tu)
          /\ TBInit(es, 1, 1, tu)

SpecTBLong == InitTBLong /\ [][NextTBFair]_vars /\ FairTB

\* A limiter that is still to be constructed, with arguments of every kind;
\* the fields of the limiters not in use are as in the other specifications.
InitNew(args) ==
    /\ mode = "new"
    /\ new_args \in args
    /\ CallersInit
    /\ FWInit([l \in Limiters |-> WindowSeconds], [l \in Limiters |-> 1])
    /\ TBIdle
    /\ multi_permits_issued = 0

\* FixedWindowRateLimiter(window_seconds, window_permits), then its use.
InitNewFW == InitNew(FWArgs)
NextNewFW == FWConstruct \/ NextFWFair
SpecNewFW == InitNewFW /\ [][NextNewFW]_vars

\* TokenBucketRateLimiter(epoch_seconds, epoch_permits, max_burst,
\* token_update_frequency), then its use.
InitNewTB == InitNew(TBArgs)
NextNewTB == TBConstruct \/ NextTBFair
SpecNewTB == InitNewTB /\ [][NextNewTB]_vars

\* One caller issuing scoped acquisitions back to back around work of
\* negligible duration (the loop of test_window_acquire_timing): time passes
\* only while the caller waits at the held gate.
BackToBackTick ==
    /\ pc[1] = "acquire"
    /\ permitter["A"]
    /\ Tick

\* The limiter of that loop, for every window length and permit count.
InitFWBackToBack ==
    /\ new_args = NoArgs
    /\ mode = "fw"
    /\ CallersInit
    /\ TBIdle
    /\ multi_permits_issued = 0
    /\ \E ws \in 1..WindowSeconds, wp \in 1..MaxPermits :
          FWInit([l \in Limiters |-> ws], [l \in Limiters |-> wp])

NextFWBackToBack ==
    /\ mode = "fw"
    /\ \/ Call(1)
       \/ FWStep(1)
       \/ FWReset("A")
       \/ BackToBackTick

SpecFWBackToBack == InitFWBackToBack /\ [][NextFWBackToBack]_vars

\* A limiter used directly for one scoped acquisition more (MaxCallsLong),
\* without reset_permits_issued: long enough for an acquisition that comes
\* after the over-admitted ones have been reset over.
CallLong(c) == CallWithin(c, MaxCallsLong)

NextFWLong ==
    /\ mode = "fw"
    /\ \/ \E c \in Callers : CallLong(c)
       \/ \E c \in Callers : FWStep(c)
       \/ FWReset("A")
       \/ Tick

SpecFWLong == InitFW /\ [][NextFWLong]_vars

\* Two composites over the same two fixed-window children: each of the
\* NumOrderCallers callers uses MultiRateLimiter(A, B) or
\* MultiRateLimiter(B, A) for MaxCallsOrders scoped acquisitions.
OrderCallers == 1..NumOrderCallers

InitMultiOrders ==
    /\ new_args = NoArgs
    /\ mode = "multi"
    /\ \E order \in [Callers -> {limiters, limiters_reversed}] :
          /\ \A c \in Callers \ OrderCallers : order[c] = limiters
          /\ CallersInitWith(order)
    /\ TBIdle
    /\ multi_permits_issued = 0
    /\ \E wa \in 1..MaxPermits, wb \in 1..MaxPermits :
          FWInit([l \in Limiters |-> WindowSeconds], [l \in Limiters |-> IF l = "A" THEN wa ELSE wb])

\* The next step of caller c inside a scoped acquisition of its composite.
MultiStep(c) ==
    \/ \E l \in Limiters : FWAcquire(c, l)
    \/ \E l \in Limiters : FWEnter(c, l)
    \/ MultiCount(c)
    \/ Work(c)
    \/ \E l \in Limiters : FWExit(c, l)

NextMultiOrders ==
    /\ mode = "multi"
    /\ \/ \E c \in OrderCallers : CallWithin(c, MaxCallsOrders)
       \/ \E c \in OrderCallers : MultiStep(c)
       \/ \E l \in Limiters : FWReset(l)
       \/ Tick

\* Fair scheduling: a caller that can take a step eventually does, the
\* protected work ends, time passes and a Timer that is due fires.
FairMultiOrders ==
    /\ \A c \in OrderCallers : WF_vars(MultiStep(c))
    /\ \A l \in Limiters : WF_vars(FWReset(l))
    /\ WF_vars(Tick)

SpecMultiOrders == InitMultiOrders /\ [][NextMultiOrders]_vars /\ FairMultiOrders

\* ------------------------------------------------------------ lock level
\* One limiter (fixed window or token bucket) with the acquisition of each
\* of its three locks as a step of its own.  The threads are the callers,
\* the Timer or refill thread, a thread that calls reset_permits_issued and
\* one that reads permits_issued; NumLockCallers callers make MaxCallsLocks
\* scoped acquisitions.
TaskThread == NumCallers + 1
StatsThread == NumCallers + 2
ReaderThread == NumCallers + 3
LockCallers == 1..NumLockCallers
LockThreads == LockCallers \cup {TaskThread, StatsThread, ReaderThread}

\* Mutant: __enter__ takes the permit gate last.
EnterLocksGateLast == <<"enter_exit", "issued", "permitter">>

\* __enter__, lines 81-82 and 149-150: acquire() on the gate, then
\* `with self._enter_exit_lock, self._total_permits_issued_lock`.
EnterLocks == <<"permitter", "enter_exit", "issued">>

\* The locks an operation blocks on, in the order it takes them: __exit__
\* lines 94 and 162, _reset line 104 and _provide_tokens line 181,
\* permits_issued lines 116 and 204, reset_permits_issued lines 120 and 208.
\* release() on the gate (lines 89, 109, 156, 189) never blocks.
LocksOf(op) ==
    CASE op = "__enter__" -> EnterLocks
      [] op = "__exit__" -> <<"enter_exit">>
      [] op = "task" -> <<"enter_exit">>
      [] op = "permits_issued" -> <<"issued">>
      [] op = "reset_permits_issued" -> <<"issued">>
      [] OTHER -> <<>>

\* The Timer is due (its thread runs _reset), or a refill loop is alive.
TaskDue == IF mode = "fw" THEN timers["A"] > 0 /\ resetter["A"] = 0 ELSE providers > 0

\* The operation thread t is in.
Op(t) ==
    IF t \in Callers
    THEN (IF pc[t] \in {"acquire", "enter"} THEN "__enter__"
          ELSE IF pc[t] = "exit" THEN "__exit__" ELSE "none")
    ELSE IF t = TaskThread THEN (IF TaskDue THEN "task" ELSE "none")
    ELSE IF t = StatsThread THEN "reset_permits_issued"
    ELSE "permits_issued"

\* The locks thread t holds; a caller past acquire() holds the gate until
\* its __enter__ is over.
Holds(t) ==
    (IF t \in Callers /\ pc[t] = "enter" THEN {"permitter"} ELSE {})
    \cup (IF enter_exit_lock = t THEN {"enter_exit"} ELSE {})
    \cup (IF issued_lock = t THEN {"issued"} ELSE {})

\* The lock thread t takes next, "none" when its operation has them all.
Wants(t) ==
    LET NotHeld(x) == x \notin Holds(t)
        pending == SelectSeq(LocksOf(Op(t)), NotHeld)
    IN  IF pending = <<>> THEN "none" ELSE Head(pending)

LockCall(c) == Holds(c) = {} /\ CallWithin(c, MaxCallsLocks)

LockWork(c) == Holds(c) = {} /\ Work(c)

\* Thread t blocks on its next lock and gets it.
LockTake(t) ==
    \/ /\ Wants(t) = "permitter"
       /\ IF mode = "fw" THEN FWAcquire(t, "A") ELSE TBAcquire(t)
    \/ /\ Wants(t) = "enter_exit"
       /\ enter_exit_lock = NoThread
       /\ enter_exit_lock' = t
       /\ UNCHANGED <<mode, new_args, multi_limiters, cvars, fwvars, multi_permits_issued, hist, tbvars, issued_lock>>
    \/ /\ Wants(t) = "issued"
       /\ issued_lock = NoThread
       /\ issued_lock' = t
       /\ UNCHANGED <<mode, new_args, multi_limiters, cvars, fwvars, multi_permits_issued, hist, tbvars, enter_exit_lock>>

\* A caller that has its locks runs the body of __enter__ or __exit__.
LockBody(c) ==
    /\ Op(c) # "none"
    /\ Wants(c) = "none"
    /\ IF mode = "fw" THEN FWEnter(c, "A") \/ FWExit(c, "A")
                      ELSE TBEnter(c) \/ TBExit(c)

\* The end of a caller's with block: the locks go back, last taken first.
LockRelease(c) ==
    /\ Op(c) = "none"
    /\ Holds(c) # {}
    /\ IF issued_lock = c
       THEN issued_lock' = NoThread /\ UNCHANGED enter_exit_lock
       ELSE enter_exit_lock' = NoThread /\ UNCHANGED issued_lock
    /\ UNCHANGED <<mode, new_args, multi_limiters, cvars, fwvars, multi_permits_issued, hist, tbvars>>

\* _reset or one iteration of _provide_tokens, under _enter_exit_lock.
LockTask ==
    /\ enter_exit_lock = TaskThread
    /\ IF mode = "fw" THEN FWResetBody("A") ELSE TBProvideTokensBody
    /\ enter_exit_lock' = NoThread
    /\ UNCHANGED issued_lock

\* reset_permits_issued, under _total_permits_issued_lock.
LockStats ==
    /\ issued_lock = StatsThread
    /\ IF mode = "fw" THEN FWResetPermitsIssuedBody("A") ELSE TBResetPermitsIssuedBody
    /\ issued_lock' = NoThread
    /\ UNCHANGED enter_exit_lock

\* permits_issued, lines 114-117 and 202-205: the counter is read.
LockRead ==
    /\ issued_lock = ReaderThread
    /\ issued_lock' = NoThread
    /\ UNCHANGED <<mode, new_args, multi_limiters, cvars, fwvars, multi_permits_issued, hist, tbvars, enter_exit_lock>>

InitLocks == InitFW \/ InitTB

NextLocks ==
    \/ \E c \in LockCallers : LockCall(c)
    \/ \E t \in LockThreads : LockTake(t)
    \/ \E c \in LockCallers : LockBody(c)
    \/ \E c \in LockCallers : LockRelease(c)
    \/ \E c \in LockCallers : LockWork(c)
    \/ LockTask
    \/ LockStats
    \/ LockRead
    \/ mode = "fw" /\ Tick

SpecLocks == InitLocks /\ [][NextLocks]_vars

\* ------------------------------------------------------------------ claims
\* Starts of the last window_seconds, on the limiter used directly.
RecentStarts == {i \in 1..Len(starts["A"]) : starts["A"][i] < window_seconds["A"]}

\* C1: FixedWindowRateLimiter: in every interval of length window_seconds at
\* most window_permits acquisitions start (stated at the end of the
\* interval: the starts younger than window_seconds are at most window_permits).
C1_RollingWindow == Cardinality(RecentStarts) <= window_permits["A"]

\* C2: FixedWindowRateLimiter: 0 <= _permits <= window_permits in every
\* reachable state.
C2_PermitsInRange == 0 <= permits["A"] /\ permits["A"] <= window_permits["A"]

\* C3: TokenBucketRateLimiter: 0 <= _tokens <= max_burst in every reachable
\* state.
C3_TokensInRange == 0 <= tokens /\ tokens <= token_limit * Token

\* C3 witness: the bucket is drained, the refill loop is running and has
\* iterated, and a caller waits at the held gate.
C3_Witness ==
    /\ mode = "tb" /\ ticked /\ token_provider
    /\ tokens = 0 /\ bucket_permitter
    /\ \E c \in Callers : pc[c] = "acquire"

\* C4: __enter__ never raises: no scoped acquisition ends with the
\* RuntimeError of releasing an unlocked permit gate.
C4_EnterNeverRaises == \A c \in Callers : result[c] # "RuntimeError"

\* The gate of the fixed-window limiter is held, no reset is pending and no
\* acquisition is in flight.
FWStuck ==
    /\ permitter["A"]
    /\ resetter["A"] = NoTimer
    /\ \A c \in Callers : pc[c] \notin {"enter", "work", "exit"}

\* C5: FixedWindowRateLimiter liveness: every caller waiting at the permit
\* gate is eventually admitted, and the gate is never held with no reset
\* pending and no acquisition in flight.
C5_WindowLive ==
    /\ \A c \in Callers : (pc[c] = "acquire" /\ permitter["A"]) ~> (pc[c] = "work")
    /\ []~FWStuck

\* The bucket is below one token, its gate is held, no refill loop is set
\* and no admitted caller has its __exit__ still to run.
TBStuck ==
    /\ tokens < Token
    /\ bucket_permitter
    /\ ~token_provider
    /\ \A c \in Callers : pc[c] \notin {"work", "exit"}

\* C6: TokenBucketRateLimiter liveness: every caller waiting at the permit
\* gate is eventually admitted, and the end of the refill loop never leaves
\* the bucket below one token with the gate held, no loop set and no
\* __exit__ pending.
C6_BucketLive ==
    /\ \A c \in Callers : (pc[c] = "acquire" /\ bucket_permitter) ~> (pc[c] = "work")
    /\ []~TBStuck

\* C6 witness: the refill loop has run and ended itself, the bucket was
\* drained again and a caller is blocked at the held gate.
C6_Witness ==
    /\ ticked /\ ~token_provider
    /\ tokens < Token /\ bucket_permitter
    /\ \E c \in Callers : pc[c] = "acquire"

\* C7: permits_issued is never negative and equals the number of
\* acquisitions admitted (__enter__ returned) since the last
\* reset_permits_issued, for every limiter type.
C7_IssuedIsAdmitted ==
    /\ \A l \in Limiters : /\ total_permits_issued[l] >= 0
                           /\ total_permits_issued[l] = admitted[l]
    /\ bucket_permits_issued >= 0 /\ bucket_permits_issued = admitted["T"]
    /\ multi_permits_issued >= 0 /\ multi_permits_issued = admitted["M"]

\* C8 as claimed: the issued counter equals the number of acquisitions that
\* have completed their release since the last reset_permits_issued.
C8_IssuedIsReleased ==
    /\ \A l \in Limiters : total_permits_issued[l] = released[l]
    /\ bucket_permits_issued = released["T"]

\* C8 as amended: the issued counter equals the number of acquisitions that
\* have gone through the counter update of __enter__ since the last
\* reset_permits_issued, released or not.
C8_IssuedIsTaken ==
    /\ \A l \in Limiters : total_permits_issued[l] = taken[l]
    /\ bucket_permits_issued = taken["T"]

\* C8 witness: an admitted caller that has not released is already counted.
C8_Witness ==
    /\ mode = "tb"
    /\ bucket_permits_issued = 1 /\ released["T"] = 0
    /\ \E c \in Callers : pc[c] = "work"

\* C9: when the with statement of a caller ends after protected work, the
\* release bookkeeping is done (in-flight decrement, reset or refill task
\* scheduled, nothing held), it is the same whether or not the work raised,
\* and the caller sees the error exactly when the work raised.
C9_ReleaseThenPropagate ==
    [][\A c \in Callers :
          (pc[c] = "exit" /\ pc'[c] = "idle") =>
             /\ result'[c] = (IF exc[c] THEN "raised" ELSE "returned")
             /\ held'[c] = {}
             /\ mode \in {"fw", "multi"} =>
                   /\ currently_processing'[at[c]] = currently_processing[at[c]] - 1
                   /\ resetter'[at[c]] # NoTimer
                   /\ UNCHANGED <<permits, permitter, total_permits_issued>>
             /\ mode = "tb" =>
                   /\ token_provider'
                   /\ UNCHANGED <<tokens, bucket_permitter, bucket_permits_issued>>]_vars

\* C9 witness: the protected work of a caller of the composite raised, every
\* child was released and the error reached the caller.
C9_Witness ==
    /\ mode = "multi"
    /\ \E c \in Callers : result[c] = "raised" /\ pc[c] = "idle" /\ held[c] = {}

\* The refill per iteration is a whole number of tokens.
IntegerRefill == tokens_per_segment % Token = 0

\* C10: TokenBucketRateLimiter burst, for an integer refill per iteration:
\* before the first refill iteration the gate admits while fewer than
\* max_burst acquisitions were admitted, and never more than max_burst; and
\* after an iteration that found the bucket drained and added one token, at
\* most one acquisition is admitted before the next iteration.
C10_Burst ==
    IntegerRefill =>
       /\ (~ticked /\ tick_admits < token_limit
             /\ \A c \in Callers : pc[c] # "enter") => ~bucket_permitter
       /\ ~ticked => tick_admits <= token_limit
       /\ (ticked /\ tokens_per_segment = Token /\ tick_from < Token) => tick_admits <= 1

\* C10 witness: a bucket of burst 2 was drained, the iteration that found it
\* drained added one token, one caller took it and the next one is blocked.
C10_Witness ==
    /\ token_limit = 2 /\ tokens_per_segment = Token
    /\ ticked /\ tick_from < Token /\ tick_admits = 1
    /\ bucket_permitter /\ tokens < Token
    /\ \E c \in Callers : pc[c] = "acquire"

\* C11: TokenBucketRateLimiter throughput: the acquisitions admitted since
\* construction are at most max_burst plus the refill iterations run so far
\* times the tokens added per iteration, whether or not the refill loop has
\* ended and been started again in between (stated while the iteration
\* count is below its cap).
C11_Throughput ==
    ticks < MaxTicks =>
       bucket_admits * Token <= token_limit * Token + ticks * tokens_per_segment

\* C11 witness: the refill loop ran, ended itself on a full bucket and was
\* started again by a later release, and more than max_burst acquisitions
\* have been admitted.
C11_Witness ==
    /\ mode = "tb" /\ ticks >= 2 /\ ticks < MaxTicks
    /\ token_provider /\ segments_full = 0 /\ tick_from = token_limit * Token
    /\ bucket_admits > token_limit

\* A step in which caller c runs the __exit__ of the fixed-window limiter.
ExitStep(c) == pc[c] = "exit" /\ pc'[c] # "exit"

\* A step in which caller c runs lines 82-91 of __enter__.
EnterStep(c) == pc[c] = "enter" /\ pc'[c] # "enter"

\* C12: FixedWindowRateLimiter window anchoring: a reset Timer is started
\* only by an __exit__ that finds none set (the first after construction or
\* after the previous reset), an __exit__ that finds one set leaves it, and
\* an __enter__ never touches it; and with window_permits = 1 the second
\* acquisition starts at least window_seconds after the release of the
\* first, so at least 2 x window_seconds after the first's start when the
\* first's work lasted a window or more.
C12_WindowAnchoring ==
    [][/\ \A c \in Callers : EnterStep(c) => resetter' = resetter
       /\ (resetter["A"] = NoTimer /\ resetter'["A"] # NoTimer) =>
             \E c \in Callers : ExitStep(c)
       /\ \A c \in Callers : ExitStep(c) =>
             resetter'["A"] = (IF resetter["A"] = NoTimer THEN window_seconds["A"]
                               ELSE resetter["A"])
       /\ (window_permits["A"] = 1 /\ Len(starts["A"]) = 1 /\ Len(starts'["A"]) = 2) =>
             /\ last_release["A"] # NoTimer
             /\ last_release["A"] >= window_seconds["A"]
             /\ first_work["A"] >= window_seconds["A"] =>
                   starts["A"][1] >= 2 * window_seconds["A"]]_vars

\* C12 witness: with window_permits = 1 the first acquisition's work lasted
\* a window before it released, and the second acquisition has started.
C12_Witness ==
    /\ mode = "fw" /\ window_permits["A"] = 1
    /\ Len(starts["A"]) = 2 /\ starts["A"][2] = 0
    /\ first_work["A"] >= window_seconds["A"]
    /\ \E c \in Callers : pc[c] = "work"

\* C13: FixedWindowRateLimiter grouping, one caller acquiring back to back
\* with window_permits = N: every acquisition is admitted, an acquisition
\* that is not the first of a group of N starts together with the one
\* before it, and acquisition k*N+1 starts at least window_seconds after
\* acquisition (k-1)*N+1.
C13_Grouping ==
    LET N == window_permits["A"]
        S == starts["A"]
    IN  /\ result[1] # "RuntimeError"
        /\ \A i \in 1..Len(S) :
              /\ (i > 1 /\ (i - 1) % N # 0) => S[i] = S[i - 1]
              /\ (i > N /\ (i - 1) % N = 0 /\ S[i] = 0) => S[i - N] >= window_seconds["A"]

\* C13 witness: with two permits the caller has made four acquisitions, the
\* third and fourth just now and a window or more after the first.
C13_Witness ==
    /\ window_permits["A"] = 2 /\ Len(starts["A"]) = 4
    /\ starts["A"][3] = 0 /\ starts["A"][4] = 0
    /\ starts["A"][1] >= window_seconds["A"]
    /\ \A c \in Callers \ {1} : pc[c] = "idle" /\ result[c] = "none"

\* A step in which caller c runs lines 49-52 of MultiRateLimiter.__enter__.
CountStep(c) == pc[c] = "count" /\ pc'[c] = "work"

\* C14: MultiRateLimiter: a caller reaches its protected work only through
\* the count of line 50, that count adds exactly 1 and happens when every
\* child has admitted the caller, and nothing else but
\* reset_permits_issued changes the composite's counter, so a caller still
\* waiting for a child is not counted.
C14_CountedOnce ==
    [][/\ \A c \in Callers :
             /\ (pc[c] # "work" /\ pc'[c] = "work") => CountStep(c)
             /\ CountStep(c) => /\ multi_permits_issued' = multi_permits_issued + 1
                                /\ held[c] = Limiters
       /\ multi_permits_issued' # multi_permits_issued =>
             \/ \E c \in Callers : CountStep(c)
             \/ multi_permits_issued' = 0]_vars

\* C14 witness: one caller of the composite is counted and at work, another
\* was admitted by the first child, waits at the held gate of the second
\* and is not counted.
C14_Witness ==
    /\ mode = "multi" /\ multi_permits_issued = 1 /\ total_permits_issued["A"] = 2
    /\ \E c \in Callers : pc[c] = "work"
    /\ \E c \in Callers : pc[c] = "acquire" /\ at[c] = "B" /\ permitter["B"] /\ held[c] = {"A"}

\* C15: MultiRateLimiter over fixed-window children: the composite
\* acquisitions started since the latest reset of a child, so between two
\* consecutive resets of it, are at most that child's window_permits.
C15_ChildBound ==
    \A l \in Limiters : window_starts[l] <= window_permits[l]

\* A step in which caller c runs the __exit__ of the child it is at.
ChildExitStep(c) == pc[c] = "exit" /\ (pc'[c] # "exit" \/ at'[c] # at[c])

\* The children from l on, in the order of _limiters.
From(l) == {limiters[i] : i \in IndexOf(l)..Len(limiters)}

\* C16: MultiRateLimiter.__exit__ releases every child exactly once per
\* composite acquisition: a caller at work has entered every child, its
\* __exit__ goes through the children one by one, each child's __exit__
\* takes the caller out of that child's in-flight counter (which the
\* caller's __enter__ had raised by one) and leaves that child's Timer set,
\* and when the scoped acquisition has ended, normally or with the error of
\* the work, the caller holds no child.
C16_ReleasesEveryChild ==
    /\ [](mode = "multi" =>
            \A c \in Callers :
               /\ pc[c] = "work" => held[c] = Limiters
               /\ pc[c] = "exit" => held[c] = From(at[c])
               /\ (pc[c] = "idle" /\ result[c] \in {"returned", "raised"}) => held[c] = {})
    /\ [][mode = "multi" =>
            \A c \in Callers :
               /\ (EnterStep(c) /\ result'[c] # "RuntimeError") =>
                     /\ held'[c] = held[c] \cup {at[c]}
                     /\ currently_processing' =
                           [currently_processing EXCEPT ![at[c]] = @ + 1]
               /\ ChildExitStep(c) =>
                     /\ held'[c] = held[c] \ {at[c]}
                     /\ currently_processing' =
                           [currently_processing EXCEPT ![at[c]] = @ - 1]
                     /\ resetter'[at[c]] # NoTimer]_vars

\* C16 witness: one composite acquisition has ended normally while another
\* caller is at work; only that caller is in flight at each child and both
\* children have their Timer set.
C16_Witness ==
    /\ mode = "multi"
    /\ \E c \in Callers : pc[c] = "idle" /\ result[c] = "returned" /\ held[c] = {}
    /\ \E c \in Callers : pc[c] = "work"
    /\ \A l \in Limiters : currently_processing[l] = 1 /\ resetter[l] # NoTimer

\* The children before l, in the order of _limiters.
Before(l) == {limiters[i] : i \in 1..(IndexOf(l) - 1)}

\* The children after l, in the order of _limiters.
After(l) == {limiters[i] : i \in (IndexOf(l) + 1)..Len(limiters)}

\* C17: MultiRateLimiter.__enter__ acquires its children in the order given
\* at construction: a composite acquisition begins at the first child, a
\* caller waiting for or entering child i has been admitted by every child
\* before i and by none after it, and the __enter__ of a child hands the
\* caller to the next child in that order.
C17_InOrder ==
    /\ [](mode = "multi" =>
            \A c \in Callers :
               pc[c] \in {"acquire", "enter"} =>
                  /\ Before(at[c]) \subseteq held[c]
                  /\ held[c] \cap After(at[c]) = {})
    /\ [][mode = "multi" =>
            \A c \in Callers :
               /\ (pc[c] = "idle" /\ pc'[c] = "acquire") => at'[c] = limiters[1]
               /\ (EnterStep(c) /\ pc'[c] = "acquire") =>
                     IndexOf(at'[c]) = IndexOf(at[c]) + 1]_vars

\* C17 witness: a caller waits at the held gate of the second child with
\* the first child entered, and the gate it waits at is held by a reset
\* still to come.
C17_Witness ==
    /\ mode = "multi"
    /\ \E c \in Callers : /\ pc[c] = "acquire" /\ at[c] = limiters[2]
                           /\ held[c] = {limiters[1]}
    /\ permitter[limiters[2]] /\ permits[limiters[2]] = 0
    /\ permitter[limiters[1]] = FALSE

\* C18: FixedWindowRateLimiter construction validates its configuration:
\* with window_permits >= 1 and window_seconds > 0 it yields a limiter, and
\* otherwise it fails with a configuration error and yields none.
C18_WindowValidated ==
    [][(mode = "new" /\ new_args \in FWArgs) =>
          IF new_args[2] >= 1 /\ new_args[1] > 0
          THEN mode' = "fw"
          ELSE mode' = "ValueError" /\ UNCHANGED fwvars]_vars

\* C19: TokenBucketRateLimiter construction succeeds exactly when
\* 1 <= max_burst <= epoch_permits and 0 < token_update_frequency <=
\* epoch_seconds, and then the limiter starts with max_burst tokens, an
\* issued counter of 0, the gate released and no refill task; otherwise it
\* raises ValueError and no field of a limiter has been set.
C19_BucketValidated ==
    [][(mode = "new" /\ new_args \in TBArgs) =>
          LET es == new_args[1]
              ep == new_args[2]
              mb == new_args[3]
              tu == new_args[4]
          IN  IF 1 <= mb /\ mb <= ep /\ 0 < tu /\ tu <= es
              THEN /\ mode' = "tb"
                   /\ tokens' = mb * Token'
                   /\ token_limit' = mb
                   /\ bucket_permits_issued' = 0
                   /\ bucket_permitter' = FALSE
                   /\ token_provider' = FALSE
              ELSE /\ mode' = "ValueError"
                   /\ UNCHANGED tbvars]_vars

\* C19 witness: a construction with max_burst above epoch_permits and
\* otherwise valid arguments has raised ValueError.
C19_Witness ==
    /\ mode = "ValueError" /\ new_args \in TBArgs
    /\ new_args[3] > new_args[2] /\ new_args[2] >= 1
    /\ 0 < new_args[4] /\ new_args[4] <= new_args[1]

\* Every field of the limiters but the issued counters, and the callers.
others == <<mode, new_args, multi_limiters, cvars, window_permits, window_seconds, permitter, permits,
            currently_processing, resetter, tbconf, tokens, bucket_permitter,
            token_provider, segments_full>>

\* Every issued counter.
counters == <<total_permits_issued, multi_permits_issued, bucket_permits_issued>>

\* The step of a counter from n to m is neither none nor the count of one
\* acquisition.
Cleared(n, m) == m # n /\ m # n + 1

\* C20: reset_permits_issued, on any limiter, sets that limiter's issued
\* counter to 0 and changes nothing else: remaining capacity, gate,
\* in-flight counter, Timer or refill task, the other counters and every
\* caller (none is admitted by it) stay as they are; and where the
\* counter is 0 already the call can be made and leaves it 0, with
\* nothing else changed.
C20_ResetOnlyCounter ==
    /\ [][/\ \A l \in Limiters :
                Cleared(total_permits_issued[l], total_permits_issued'[l]) =>
                   /\ total_permits_issued' = [total_permits_issued EXCEPT ![l] = 0]
                   /\ UNCHANGED <<others, multi_permits_issued, bucket_permits_issued>>
          /\ Cleared(multi_permits_issued, multi_permits_issued') =>
                   /\ multi_permits_issued' = 0
                   /\ UNCHANGED <<others, total_permits_issued, bucket_permits_issued>>
          /\ Cleared(bucket_permits_issued, bucket_permits_issued') =>
                   /\ bucket_permits_issued' = 0
                   /\ UNCHANGED <<others, total_permits_issued, multi_permits_issued>>]_vars
    /\ [](/\ (mode = "fw" /\ total_permits_issued["A"] = 0) =>
                ENABLED (FWResetPermitsIssued("A") /\ UNCHANGED <<others, counters>>)
          /\ (mode = "multi" /\ multi_permits_issued = 0) =>
                ENABLED (MultiResetPermitsIssued /\ UNCHANGED <<others, counters>>)
          /\ (mode = "tb" /\ bucket_permits_issued = 0) =>
                ENABLED (TBResetPermitsIssued /\ UNCHANGED <<others, counters>>))

\* C20 witness: the counter of a token bucket was reset while one caller
\* was at its protected work and another waited at the held gate: the
\* counter is 0, the admission is on record, the waiting caller still
\* waits and the bucket is still drained.
C20_Witness ==
    /\ mode = "tb" /\ bucket_permits_issued = 0 /\ bucket_admits >= 1
    /\ tokens < Token /\ bucket_permitter
    /\ \E c \in Callers : pc[c] = "work"
    /\ \E c \in Callers : pc[c] = "acquire"

\* C21: FixedWindowRateLimiter: at every instant at most one reset Timer is
\* pending per instance and the handle is set exactly while one is; an
\* __exit__ starts a Timer only when it finds no handle, so __exit__ calls
\* that run one after the other under the lock never start two; and a Timer
\* runs _reset once, when it is due, and _reset clears the handle.
C21_OneTimer ==
    /\ [](\A l \in Limiters : /\ timers[l] \in {0, 1}
                              /\ timers[l] = 1 <=> resetter[l] # NoTimer)
    /\ [][/\ \A c \in Callers : ExitStep(c) =>
                timers'["A"] = (IF resetter["A"] = NoTimer THEN 1 ELSE timers["A"])
          /\ timers'["A"] > timers["A"] => \E c \in Callers : ExitStep(c)
          /\ timers'["A"] < timers["A"] =>
                /\ resetter["A"] = 0
                /\ resetter'["A"] = NoTimer
                /\ timers'["A"] = 0]_vars

\* C21 witness: a second __exit__ has run while the Timer of the first was
\* part of the way through its window, and that Timer is still the only one.
C21_Witness ==
    /\ mode = "fw"
    /\ released["A"] >= 2
    /\ last_release["A"] = 0
    /\ timers["A"] = 1
    /\ resetter["A"] # NoTimer /\ resetter["A"] < window_seconds["A"]

\* A step in which the refill loop runs one iteration (lines 181-200).
TBTickStep ==
    /\ pc' = pc
    /\ tokens' # tokens \/ segments_full' # segments_full \/ token_provider' # token_provider

\* C22: TokenBucketRateLimiter: at most one refill loop runs per instance and
\* the handle is set exactly while one runs; a loop is started only by an
\* __exit__ that finds no handle, an __exit__ that finds one starts none,
\* the loop iterates only while its handle is set, and the iteration that
\* clears the handle is the loop's last, so a new loop starts only after
\* the previous one has stopped.
C22_OneLoop ==
    /\ [](/\ providers \in {0, 1}
          /\ providers = 1 <=> token_provider)
    /\ [][/\ \A c \in Callers : ExitStep(c) =>
                providers' = (IF token_provider THEN providers ELSE 1)
          /\ providers' > providers => /\ \E c \in Callers : ExitStep(c)
                                       /\ ~token_provider
                                       /\ providers = 0
          /\ TBTickStep => token_provider /\ providers = 1
          /\ (token_provider /\ ~token_provider') => TBTickStep /\ providers' = 0]_vars

\* C22 witness: an iteration on a full bucket ended the loop (one segment
\* makes an epoch), and an __exit__ after it has started the next loop.
C22_Witness ==
    /\ mode = "tb"
    /\ segments_per_epoch = 1
    /\ ticked /\ tick_from = token_limit * Token
    /\ token_provider /\ providers = 1

\* C23: FixedWindowRateLimiter, per-window bound under concurrency: between
\* two consecutive runs of _reset, and before the first, at most
\* window_permits acquisitions are admitted, whatever the interleaving of
\* the callers' __enter__ steps with _reset.
C23_WindowBound ==
    mode = "fw" => window_admits["A"] <= window_permits["A"]

\* C24: FixedWindowRateLimiter, the permit gate reflects the capacity: in
\* every reachable state in which no caller is between acquiring the gate
\* (line 81) and finishing its counter update (lines 82-89), the gate is
\* unlocked exactly when _permits > 0, whatever the interleaving with _reset.
C24_GateIsCapacity ==
    (mode = "fw" /\ \A c \in Callers : pc[c] # "enter") =>
        (permitter["A"] = FALSE <=> permits["A"] > 0)

\* C25: TokenBucketRateLimiter, the gate reflects the capacity: in every
\* reachable state in which no caller is between acquiring the gate (line
\* 149) and finishing its token decrement (lines 150-156), the gate is held
\* exactly when _tokens < 1; so an iteration of the refill loop that takes
\* _tokens from below 1 to 1 or more finds the gate held, with no caller
\* inside __enter__, and unlocks it, and the release of line 189 never
\* meets an unlocked gate.
C25_BucketGate ==
    /\ []((mode = "tb" /\ \A c \in Callers : pc[c] # "enter") =>
             (bucket_permitter <=> tokens < Token))
    /\ [][/\ (TBTickStep /\ tokens < Token /\ tokens' >= Token) =>
                /\ bucket_permitter
                /\ ~bucket_permitter'
                /\ \A c \in Callers : pc[c] # "enter"
          /\ (TBTickStep /\ TBTickReleases(tokens)) => bucket_permitter]_vars

\* C25 witness: the last iteration of the loop found less than one token and
\* a caller waiting at the held gate, left one token or more and the gate
\* unlocked, and nobody has been admitted since.
C25_Witness ==
    /\ mode = "tb" /\ ticked /\ tick_admits = 0
    /\ tick_from < Token /\ tokens >= Token
    /\ ~bucket_permitter
    /\ \E c \in Callers : pc[c] = "acquire"
    /\ \A c \in Callers : pc[c] # "enter"

\* A step in which the Timer of limiter A runs _reset (lines 103-112).
ResetStep == timers'["A"] < timers["A"]

\* C26: FixedWindowRateLimiter, the reset step: _reset, as one step with
\* respect to the counter update of __enter__ and to __exit__ (all three
\* hold _enter_exit_lock), sets _permits to window_permits minus the
\* in-flight count, clears the Timer handle and leaves the gate released;
\* it changes nothing else, and on a gate that is released already the
\* release changes nothing.
C26_ResetStep ==
    [][ResetStep =>
          /\ permits'["A"] = window_permits["A"] - currently_processing["A"]
          /\ resetter'["A"] = NoTimer
          /\ permitter'["A"] = FALSE
          /\ permitter["A"] = FALSE => permitter' = permitter
          /\ UNCHANGED <<cvars, window_permits, window_seconds, total_permits_issued,
                         currently_processing, multi_permits_issued, held>>]_vars

\* C26 witness: _reset has run with one acquisition in flight: no Timer is
\* left, nobody was admitted since, the gate is released and the capacity is
\* window_permits less the one in flight.
C26_Witness ==
    /\ mode = "fw"
    /\ released["A"] >= 1 /\ resetter["A"] = NoTimer /\ timers["A"] = 0
    /\ window_admits["A"] = 0
    /\ currently_processing["A"] = 1
    /\ \E c \in Callers : pc[c] = "work"
    /\ permits["A"] = window_permits["A"] - 1
    /\ permitter["A"] = FALSE

\* C28: FixedWindowRateLimiter: whenever _reset runs, the in-flight count
\* is strictly below window_permits, so the capacity it computes is at
\* least 1, for every interleaving.
C28_ResetHasCapacity ==
    [][ResetStep => /\ currently_processing["A"] < window_permits["A"]
                    /\ permits'["A"] >= 1]_vars

\* C27: FixedWindowRateLimiter, edge case: when _reset runs with the
\* in-flight count at window_permits or above, so that the capacity it
\* computes is zero or less, no acquisition is admitted on the strength of
\* that reset: nobody returns from __enter__ until a later _reset.
C27_NoCapacityNoAdmission ==
    short_reset["A"] => window_admits["A"] = 0

\* C29: FixedWindowRateLimiter, the in-flight counter: in every reachable
\* state _currently_processing is the number of callers that __enter__
\* admitted and that have not run __exit__ yet, so it is never negative and
\* is 0 when every admitted caller has exited, whatever the interleaving
\* and also after an __enter__ that failed.
C29_InFlight ==
    mode = "fw" =>
        currently_processing["A"] = Cardinality({c \in Callers : "A" \in held[c]})

\* C30: TokenBucketRateLimiter, one iteration of the refill loop: with
\* _tokens below max_burst it sets _tokens to min(_tokens + tokens per
\* iteration, max_burst) and the count of full segments to 0, and it
\* releases the gate exactly when it takes _tokens from below 1 to 1 or
\* more; with _tokens at max_burst it changes neither _tokens nor the gate.
C30_RefillTick ==
    [][TBTickStep =>
          IF tokens < token_limit * Token
          THEN /\ tokens' = Min(tokens + epoch_permits * token_update, token_limit * Token)
               /\ segments_full' = 0
               /\ bucket_permitter' = (IF tokens < Token /\ tokens' >= Token THEN FALSE
                                       ELSE bucket_permitter)
          ELSE /\ tokens' = tokens
               /\ bucket_permitter' = bucket_permitter]_vars

\* C30 witness: the loop has iterated twice or more, and its last iteration
\* found less than one token and filled the bucket up to max_burst, which is
\* less than a whole refill: the cap took effect, the gate is released and
\* the loop goes on.
C30_Witness ==
    /\ mode = "tb" /\ ticked /\ tick_admits = 0 /\ ticks >= 2
    /\ tick_from < Token
    /\ tick_from + tokens_per_segment > token_limit * Token
    /\ tokens = token_limit * Token
    /\ ~bucket_permitter /\ token_provider /\ segments_full = 0

\* The least whole number of b's that make up a: ceil(a / b).
CeilDiv(a, b) == CHOOSE n \in 0..a : n * b >= a /\ (n - 1) * b < a

\* C31: TokenBucketRateLimiter, the refill loop ends itself: an iteration
\* clears the handle and is the loop's last exactly when it is the
\* ceil(epoch_seconds / token_update_frequency)-th in a row to find the
\* bucket full; an iteration that finds the bucket not full sets the count
\* of full iterations back to 0, one that finds it full adds one; and from
\* any state in which the loop runs, either the loop ends or one more
\* acquisition is admitted.
C31_LoopEnds ==
    /\ [][TBTickStep =>
             /\ ~token_provider' <=>
                   /\ tokens = token_limit * Token
                   /\ segments_full + 1 = CeilDiv(epoch_seconds, token_update)
             /\ tokens # token_limit * Token => segments_full' = 0
             /\ (tokens = token_limit * Token /\ token_provider') =>
                   segments_full' = segments_full + 1]_vars
    /\ [](segments_full < CeilDiv(epoch_seconds, token_update))
    /\ \A n \in 0..MaxCalls :
          (token_provider /\ bucket_admits = n) ~> (~token_provider \/ bucket_admits > n)

\* C31 witness: with epoch_seconds = 3 and token_update = 2 the loop has
\* iterated at least twice and ended itself on a full bucket.
C31_Witness ==
    /\ mode = "tb" /\ epoch_seconds = 3 /\ token_update = 2
    /\ ticks >= 2 /\ tick_from = token_limit * Token
    /\ ~token_provider /\ providers = 0
    /\ bucket_admits >= 1

\* No refill loop is alive and every admitted caller has run __exit__.
TBIdleNow ==
    /\ mode = "tb"
    /\ ~token_provider /\ providers = 0
    /\ \A c \in Callers : "T" \notin held[c]

\* C32: TokenBucketRateLimiter: in every reachable state in which no refill
\* loop is alive and every admitted caller has run __exit__, the bucket is
\* full and the permit gate is released.
C32_IdleIsFull ==
    TBIdleNow => (tokens = token_limit * Token /\ ~bucket_permitter)

\* C32, amended: the same in the states in which, besides, no caller is
\* between acquiring the gate (line 149) and its token decrement (line 151);
\* such a caller holds the gate of a full bucket.
C32_IdleIsFullOutsideEnter ==
    /\ TBIdleNow => tokens = token_limit * Token
    /\ (TBIdleNow /\ \A c \in Callers : pc[c] # "enter") => ~bucket_permitter
    /\ (TBIdleNow /\ bucket_permitter) => \E c \in Callers : pc[c] = "enter"

\* C32 witness: the loop has run and ended itself, every admitted caller has
\* exited, nobody is inside __enter__, and a caller is about to acquire the
\* released gate of the full bucket.
C32_Witness ==
    /\ TBIdleNow /\ ticked /\ bucket_admits >= 1
    /\ \A c \in Callers : pc[c] # "enter"
    /\ \E c \in Callers : pc[c] = "acquire"
    /\ tokens = token_limit * Token /\ ~bucket_permitter

\* The place of a lock in the order.
Rank(x) == CASE x = "permitter" -> 1 [] x = "enter_exit" -> 2 [] x = "issued" -> 3

\* Thread t is blocked on a lock that thread u holds.
WaitsFor(t, u) == t # u /\ Wants(t) # "none" /\ Wants(t) \in Holds(u)

\* C33: lock ordering within one limiter: a thread that blocks on a lock
\* holds only locks that come earlier in the order permit gate, then
\* _enter_exit_lock, then _total_permits_issued_lock, in every operation
\* (__enter__, __exit__, _reset or the refill loop, permits_issued,
\* reset_permits_issued); so no threads wait for one another in a circle.
C33_LockOrder ==
    /\ \A t \in LockThreads :
          Wants(t) # "none" => \A h \in Holds(t) : Rank(h) < Rank(Wants(t))
    /\ ~\E t, u \in LockThreads : WaitsFor(t, u) /\ WaitsFor(u, t)
    /\ ~\E t, u, v \in LockThreads : WaitsFor(t, u) /\ WaitsFor(u, v) /\ WaitsFor(v, t)

\* C33 witness: a caller inside __enter__ holds the gate and
\* _enter_exit_lock and is blocked on _total_permits_issued_lock, which the
\* thread in reset_permits_issued holds, while the Timer or refill thread
\* is blocked on _enter_exit_lock.
C33_Witness ==
    /\ \E c \in LockCallers : /\ Holds(c) = {"permitter", "enter_exit"}
                          /\ Wants(c) = "issued"
                          /\ WaitsFor(TaskThread, c)
    /\ issued_lock = StatsThread

\* Callers c and d each hold the last permit of one child and wait at the
\* gate of the other, and nothing is left that lets them go: no Timer is
\* set on either child, and no other caller is inside a child.
CrossBlocked(c, d) ==
    /\ c # d
    /\ pc[c] = "acquire" /\ pc[d] = "acquire"
    /\ at[c] # at[d]
    /\ held[c] = {at[d]} /\ held[d] = {at[c]}
    /\ \A l \in Limiters : permitter[l] /\ permits[l] = 0 /\ resetter[l] = NoTimer
    /\ \A e \in Callers \ {c, d} : held[e] = {}

\* C34: the order of a composite's children affects latency only: with
\* composites over the same children in any orders, no two callers each
\* hold one child's last permit while blocked forever on the other child,
\* and every caller that has begun a scoped acquisition is eventually
\* admitted by its composite.
C34_OrderIsLatencyOnly ==
    /\ [](~\E c, d \in OrderCallers : CrossBlocked(c, d))
    /\ \A c \in OrderCallers : (pc[c] = "acquire") ~> (pc[c] = "work")

====

